---- MODULE Spec2Model ----
(***************************************************************************)
(* Model of naabu.py: a command-line wrapper that checks that the naabu    *)
(* binary answers a version query, runs it once against one target with a  *)
(* timeout, classifies the result and saves the captured standard output.  *)
(*                                                                         *)
(* The module-level functions are modelled as operators over the outcome   *)
(* of subprocess.run; the actions model the blocking wait on the child     *)
(* process (its writes, the passing of time, its exit, the timeout).       *)
(***************************************************************************)
EXTENDS Integers, Sequences, FiniteSets, TLC

VARIABLES
    entry,       \* the function the run starts in
    argv,        \* sys.argv, when the run starts in main
    arg,         \* the argument, when the run starts in another function
    mainPc,      \* main: "idle", "check", "scan", "exited"
    savePc,      \* run_naabu_and_save: "idle", "wait", "returned"
    runPc,       \* run_naabu: "idle", "wait", "returned", "raised"
    proc,        \* the child process subprocess.run is waiting for
    checkResult, \* check_naabu_installed: what subprocess.run returned or raised
    result,      \* run_naabu: what subprocess.run returned or raised
    calls,       \* the functions called so far, in order
    spawned,     \* the command lines of the child processes started
    printed,     \* the lines printed so far
    runRet,      \* the value run_naabu returned
    saveRet,     \* the value run_naabu_and_save returned ({} before)
    raised,      \* the exception that escaped the entry function
    exitStatus,  \* the exit status of the program ({} before it exits)
    files        \* the files in the output directory

vars == <<entry, argv, arg, mainPc, savePc, runPc, proc, checkResult, result, calls,
          spawned, printed, runRet, saveRet, raised, exitStatus, files>>

----------------------------------------------------------------------------
(* Bounds of the model *)

\* longest standard output a child process writes (in characters)
MaxOut == 2

----------------------------------------------------------------------------
(* Program constants *)

\* timeout=300 of the scan
ScanTimeout == 300

\* timeout=5 of the version query
VersionTimeout == 5

\* returncode of a child killed by SIGKILL
SIGKILL == -9

\* exit status of sys.exit(1) and of an uncaught exception
EXIT_FAILURE == 1

----------------------------------------------------------------------------
(* The environment: texts, targets, exit statuses, launch results *)

Whitespace == {" ", "\n"}

Chars == {"a"} \cup Whitespace

Targets == {"", "example.com"}

Argvs == {<<"naabu.py">>}
         \cup {<<"naabu.py", t>> : t \in Targets}
         \cup {<<"naabu.py", t, "extra">> : t \in Targets}

\* 0: clean exit; 2: failure; -9: SIGKILL; -15: SIGTERM
ReturnCodes == {0, 2, SIGKILL, -15}

Stderrs == {<<>>, <<"e">>}

\* what starting the child process can do
LaunchOutcomes == {"ok", "FileNotFoundError", "PermissionError"}

\* what creating and writing the result file can do
FsOutcomes == {"ok", "open_error", "write_error"}

VenvStates == {"absent", "dir_without_python", "dir_with_python"}

----------------------------------------------------------------------------
(* Python values *)

None == [present |-> FALSE, text |-> <<>>]

Str(s) == [present |-> TRUE, text |-> s]

Line(m, a) == [msg |-> m, arg |-> a]

\* str.strip(): leading and trailing whitespace removed
RECURSIVE lstrip(_)
lstrip(s) == IF s # <<>> /\ Head(s) \in Whitespace THEN lstrip(Tail(s)) ELSE s

RECURSIVE rstrip(_)
rstrip(s) ==
    IF s # <<>> /\ s[Len(s)] \in Whitespace
    THEN rstrip(SubSeq(s, 1, Len(s) - 1))
    ELSE s

strip(s) == rstrip(lstrip(s))

\* the result of subprocess.run: a CompletedProcess or an exception
Completed(rc, out, err) ==
    [kind |-> "completed", returncode |-> rc, stdout |-> out, stderr |-> err]

Raises(exc, out) ==
    [kind |-> exc, returncode |-> 0, stdout |-> out, stderr |-> <<>>]

NoProc == [state |-> "none", cmd |-> <<>>, timeout |-> 0, elapsed |-> 0, out |-> <<>>]

Popen(cmd, timeout) ==
    [state |-> "running", cmd |-> cmd, timeout |-> timeout, elapsed |-> 0, out |-> <<>>]

----------------------------------------------------------------------------
(* The module-level functions, over the outcome of subprocess.run *)

\* the names bound at module level when main() runs
ModuleNames == {"main", "check_naabu_installed", "activate_venv",
                "run_naabu_and_save", "run_naabu"}

\* the name main() calls to run the scan
ScanEntryName == "run_naabu_wordlist_generation_and_save"

version_command == <<"/go/bin/naabu", "-version">>

command(domain) == <<"/go/bin/naabu", "-host", domain, "-silent">>

\* check_naabu_installed without the test of the returncode
check_naabu_installed_any_exit(o) ==
    IF o.kind = "completed"
    THEN [raised |-> "none", value |-> TRUE]
    ELSE IF o.kind \in {"TimeoutExpired", "FileNotFoundError"}
    THEN [raised |-> "none", value |-> FALSE]
    ELSE [raised |-> o.kind, value |-> FALSE]

\* check_naabu_installed: True iff the version query exits with status 0;
\* a timeout or a missing binary is False, any other exception escapes
check_naabu_installed(o) ==
    IF o.kind = "completed"
    THEN [raised |-> "none", value |-> (o.returncode = 0)]
    ELSE IF o.kind \in {"TimeoutExpired", "FileNotFoundError"}
    THEN [raised |-> "none", value |-> FALSE]
    ELSE [raised |-> o.kind, value |-> FALSE]

\* activate_venv: only prints what it finds
activate_venv(venv) ==
    IF venv = "absent" THEN <<>>
    ELSE <<Line("[*] Virtual environment found", <<>>)>>
         \o (IF venv = "dir_with_python"
             THEN <<Line("[*] Using virtual environment Python", <<>>)>>
             ELSE <<Line("[*] Virtual environment found but Python not detected", <<>>)>>)

\* lines 100-104 returning the output without testing it
on_sigkill_unchecked(o) ==
    [raised |-> "none", value |-> Str(o.stdout),
     printed |-> <<Line("[!] Warning: naabu process was killed by SIGKILL", <<>>)>>]

\* lines 100-104 dropping the output
on_sigkill_drops(o) ==
    [raised |-> "none", value |-> None,
     printed |-> <<Line("[!] Warning: naabu process was killed by SIGKILL", <<>>)>>]

\* run_naabu, lines 100-104: the child was killed by SIGKILL
on_sigkill(o) ==
    [raised |-> "none",
     value |-> IF strip(o.stdout) # <<>> THEN Str(o.stdout) ELSE None,
     printed |-> <<Line("[!] Warning: naabu process was killed by SIGKILL", <<>>)>>]

\* lines 105-110 testing the output without strip()
on_nonzero_nostrip(o) ==
    [raised |-> "none",
     value |-> IF o.stdout # <<>> THEN Str(o.stdout) ELSE None,
     printed |-> <<Line("[!] naabu exited with code", <<ToString(o.returncode)>>)>>
                 \o (IF o.stderr # <<>>
                     THEN <<Line("naabu error output:", <<>>), Line("", o.stderr)>>
                     ELSE <<>>)]

\* run_naabu, lines 105-110: the child ended with another non-zero returncode
on_nonzero(o) ==
    [raised |-> "none",
     value |-> IF strip(o.stdout) # <<>> THEN Str(o.stdout) ELSE None,
     printed |-> <<Line("[!] naabu exited with code", <<ToString(o.returncode)>>)>>
                 \o (IF o.stderr # <<>>
                     THEN <<Line("naabu error output:", <<>>), Line("", o.stderr)>>
                     ELSE <<>>)]

\* line 111 with the test of the other branches
on_success_checked(o) ==
    [raised |-> "none",
     value |-> IF strip(o.stdout) # <<>> THEN Str(o.stdout) ELSE None,
     printed |-> <<>>]

\* run_naabu, line 111: the child exited with status 0
on_success(o) ==
    [raised |-> "none", value |-> Str(o.stdout), printed |-> <<>>]

\* lines 112-114 returning what the child had written
on_timeout_partial(o) ==
    [raised |-> "none", value |-> Str(o.stdout),
     printed |-> <<Line("[!] naabu wordlist generation timed out", <<>>)>>]

\* run_naabu, lines 112-114: except subprocess.TimeoutExpired
on_timeout(o) ==
    [raised |-> "none", value |-> None,
     printed |-> <<Line("[!] naabu wordlist generation timed out", <<>>)>>]

\* run_naabu, lines 115-117: except FileNotFoundError
on_not_found(o) ==
    [raised |-> "none", value |-> None,
     printed |-> <<Line("[!] Error: naabu command not found", <<>>)>>]

\* lines 118-120 raising the exception again
on_exception_reraise(o) ==
    [raised |-> o.kind, value |-> None,
     printed |-> <<Line("[!] Unexpected error running naabu:", <<o.kind>>)>>]

\* run_naabu, lines 118-120: except Exception as e
on_exception(o) ==
    [raised |-> "none", value |-> None,
     printed |-> <<Line("[!] Unexpected error running naabu:", <<o.kind>>)>>]

\* run_naabu, from the return of subprocess.run on: the value returned
\* (a text or None), the exception that escapes, the lines printed
run_naabu(domain, o) ==
    IF o.kind = "completed"
    THEN IF o.returncode = SIGKILL THEN on_sigkill(o)
         ELSE IF o.returncode # 0 THEN on_nonzero(o)
         ELSE on_success(o)
    ELSE IF o.kind = "TimeoutExpired" THEN on_timeout(o)
    ELSE IF o.kind = "FileNotFoundError" THEN on_not_found(o)
    ELSE on_exception(o)

ResultFile(text) == [dir |-> "outputs", name |-> "<timestamp>-naabu.txt", content |-> text]

\* lines 64-66 without the failure code
save_no_output_zero(r) ==
    [value |-> 0, files |-> {},
     printed |-> <<Line("[!] naabu failed or returned no output", <<>>)>>]

\* run_naabu_and_save, lines 64-66: run_naabu returned None
save_no_output(r) ==
    [value |-> 1, files |-> {},
     printed |-> <<Line("[!] naabu failed or returned no output", <<>>)>>]

\* run_naabu_and_save, lines 79-81: except Exception as e
save_exception(exc, left) ==
    [value |-> 1, files |-> left,
     printed |-> <<Line("[!] Error running naabu:", <<exc>>)>>]

\* run_naabu_and_save, lines 68-77: the output is written to a new file
save_output(r, fs) ==
    IF fs = "open_error" THEN save_exception("OSError", {})
    ELSE IF fs = "write_error" THEN save_exception("OSError", {ResultFile(<<>>)})
    ELSE [value |-> 0, files |-> {ResultFile(r.value.text)},
          printed |-> <<Line("[*] naabu results saved as", <<>>)>>]

\* run_naabu_and_save, from the return of run_naabu on: the exit code
\* returned, the files left on disk, the lines printed
run_naabu_and_save(r, fs) ==
    IF r.raised # "none" THEN save_exception(r.raised, {})
    ELSE IF ~r.value.present THEN save_no_output(r)
    ELSE save_output(r, fs)

\* main, lines 28-31: the closing status line
main_report(exit_code) ==
    IF exit_code = 0
    THEN <<Line("[+] wordlist generation completed successfully", <<>>)>>
    ELSE <<Line("[!] wordlist generation completed with errors or warnings", <<>>)>>

\* lines 11-14 with the bound off by one
main_usage_off_by_one(av) == Len(av) < 1

\* main, lines 11-14: the argument check
main_usage(av) == Len(av) < 2

\* the target the scan is run against
Target == IF entry = "main" THEN argv[2] ELSE arg

Call(fn, args) == [fn |-> fn, args |-> args]

----------------------------------------------------------------------------
(* The state machine *)

Init ==
    /\ entry \in {"main", "run_naabu_and_save", "run_naabu"}
    /\ IF entry = "main"
       THEN argv \in Argvs /\ arg = ""
       ELSE argv = <<>> /\ arg \in Targets
    /\ mainPc = "idle"
    /\ savePc = "idle"
    /\ runPc = "idle"
    /\ proc = NoProc
    /\ checkResult = Raises("none", <<>>)
    /\ result = Raises("none", <<>>)
    /\ calls = <<>>
    /\ spawned = <<>>
    /\ printed = <<>>
    /\ runRet = None
    /\ saveRet = {}
    /\ raised = "none"
    /\ exitStatus = {}
    /\ files = {}

\* run_naabu returns (or raises) on outcome o of subprocess.run, and its
\* callers run to their end: run_naabu_and_save saves, main reports and exits
Deliver(o, fs, pr) ==
    LET r == run_naabu(Target, o)
        s == run_naabu_and_save(r, fs)
    IN  /\ result' = o
        /\ runRet' = r.value
        /\ runPc' = IF r.raised = "none" THEN "returned" ELSE "raised"
        /\ IF entry = "run_naabu"
           THEN /\ printed' = pr \o r.printed
                /\ raised' = r.raised
                /\ UNCHANGED <<savePc, saveRet, files, mainPc, exitStatus>>
           ELSE /\ savePc' = "returned"
                /\ saveRet' = {s.value}
                /\ files' = files \cup s.files
                /\ raised' = "none"
                /\ IF entry = "main"
                   THEN /\ mainPc' = "exited"
                        /\ exitStatus' = {s.value}
                        /\ printed' = pr \o r.printed \o s.printed \o main_report(s.value)
                   ELSE /\ printed' = pr \o r.printed \o s.printed
                        /\ UNCHANGED <<mainPc, exitStatus>>

\* run_naabu up to the start of the child process (lines 85-99)
StartScan(launch, fs, pr, cl, pq, cr) ==
    LET pr2 == pr \o <<Line("[*] Executing:", command(Target))>>
    IN  /\ calls' = Append(cl, Call("run_naabu", <<Target>>))
        /\ checkResult' = cr
        /\ IF launch = "ok"
           THEN /\ proc' = Popen(command(Target), ScanTimeout)
                /\ spawned' = Append(spawned, command(Target))
                /\ runPc' = "wait"
                /\ savePc' = IF entry = "run_naabu" THEN savePc ELSE "wait"
                /\ mainPc' = IF entry = "main" THEN "scan" ELSE mainPc
                /\ printed' = pr2
                /\ UNCHANGED <<result, runRet, saveRet, raised, exitStatus, files>>
           ELSE /\ proc' = pq
                /\ spawned' = spawned
                /\ Deliver(Raises(launch, <<>>), fs, pr2)

\* main from the return of check_naabu_installed on (lines 18-33)
MainAfterCheck(o, venv, launch, fs, cl, pq) ==
    LET c == check_naabu_installed(o)
        exits(exc, pr) ==
            /\ mainPc' = "exited"
            /\ exitStatus' = {EXIT_FAILURE}
            /\ raised' = exc
            /\ printed' = pr
            /\ proc' = pq
            /\ checkResult' = o
            /\ UNCHANGED <<savePc, runPc, result, spawned, runRet, saveRet, files>>
    IN  IF c.raised # "none"
        THEN calls' = cl /\ exits(c.raised, printed)
        ELSE IF ~c.value
        THEN /\ calls' = cl
             /\ exits("none", printed \o
                    <<Line("[!] Error: naabu is not installed or not in PATH", <<>>),
                      Line("Please install naabu first", <<>>)>>)
        ELSE LET pr == printed \o activate_venv(venv) \o
                       <<Line("[*] Starting naabu subdomain wordlist generation for:",
                              <<argv[2]>>)>>
                 cl2 == Append(cl, Call("activate_venv", <<>>))
             IN  IF ScanEntryName \notin ModuleNames
                 THEN calls' = cl2 /\ exits("NameError", pr)
                 ELSE StartScan(launch, fs, pr,
                                Append(cl2, Call(ScanEntryName, <<argv[2]>>)), pq, o)

\* main is run: the argument check, then the version query is started
MainStart ==
    /\ entry = "main" /\ mainPc = "idle"
    /\ UNCHANGED <<entry, argv, arg>>
    /\ IF main_usage(argv)
       THEN /\ mainPc' = "exited"
            /\ exitStatus' = {EXIT_FAILURE}
            /\ calls' = Append(calls, Call("main", <<>>))
            /\ printed' = printed \o
                    <<Line("[!] Error: Please provide a subdomain for wordlist generation", <<>>),
                      Line("Usage: python3 naabu.py example.com", <<>>)>>
            /\ UNCHANGED <<savePc, runPc, proc, checkResult, result, spawned, runRet,
                           saveRet, raised, files>>
       ELSE LET cl == calls \o <<Call("main", <<>>), Call("check_naabu_installed", <<>>)>>
            IN  \E launch \in LaunchOutcomes :
                    IF launch = "ok"
                    THEN /\ mainPc' = "check"
                         /\ proc' = Popen(version_command, VersionTimeout)
                         /\ spawned' = Append(spawned, version_command)
                         /\ calls' = cl
                         /\ UNCHANGED <<savePc, runPc, checkResult, result, printed,
                                        runRet, saveRet, raised, exitStatus, files>>
                    ELSE \E venv \in VenvStates, l2 \in LaunchOutcomes, fs \in FsOutcomes :
                            MainAfterCheck(Raises(launch, <<>>), venv, l2, fs, cl, proc)

\* run_naabu_and_save is called directly
SaveStart ==
    /\ entry = "run_naabu_and_save" /\ savePc = "idle"
    /\ UNCHANGED <<entry, argv, arg>>
    /\ \E launch \in LaunchOutcomes, fs \in FsOutcomes :
            StartScan(launch, fs, printed,
                      Append(calls, Call("run_naabu_and_save", <<arg>>)), proc, checkResult)

\* run_naabu is called directly
RunStart ==
    /\ entry = "run_naabu" /\ runPc = "idle"
    /\ UNCHANGED <<entry, argv, arg>>
    /\ \E launch \in LaunchOutcomes, fs \in FsOutcomes :
            StartScan(launch, fs, printed, calls, proc, checkResult)

\* a unit of time passes while subprocess.run waits
Tick ==
    /\ proc.state = "running" /\ proc.elapsed < proc.timeout
    /\ proc' = [proc EXCEPT !.elapsed = @ + 1]
    /\ UNCHANGED <<entry, argv, arg, mainPc, savePc, runPc, checkResult, result, calls, spawned,
                   printed, runRet, saveRet, raised, exitStatus, files>>

\* the child process writes a character to its standard output
ChildWrite ==
    /\ proc.state = "running" /\ Len(proc.out) < MaxOut
    /\ \E c \in Chars : proc' = [proc EXCEPT !.out = Append(@, c)]
    /\ UNCHANGED <<entry, argv, arg, mainPc, savePc, runPc, checkResult, result, calls, spawned,
                   printed, runRet, saveRet, raised, exitStatus, files>>

\* the version query exits before its timeout
CheckCompleted ==
    /\ mainPc = "check" /\ proc.state = "running" /\ proc.elapsed < proc.timeout
    /\ UNCHANGED <<entry, argv, arg>>
    /\ \E rc \in ReturnCodes, err \in Stderrs, venv \in VenvStates,
          launch \in LaunchOutcomes, fs \in FsOutcomes :
            MainAfterCheck(Completed(rc, proc.out, err), venv, launch, fs, calls, NoProc)

\* the version query is still running when its timeout elapses: it is killed
CheckTimedOut ==
    /\ mainPc = "check" /\ proc.state = "running" /\ proc.elapsed = proc.timeout
    /\ UNCHANGED <<entry, argv, arg>>
    /\ \E venv \in VenvStates, launch \in LaunchOutcomes, fs \in FsOutcomes :
            MainAfterCheck(Raises("TimeoutExpired", proc.out), venv, launch, fs, calls, NoProc)

\* the scan exits before its timeout
ScanCompleted ==
    /\ runPc = "wait" /\ proc.state = "running" /\ proc.elapsed < proc.timeout
    /\ proc' = NoProc
    /\ UNCHANGED <<entry, argv, arg, checkResult, calls, spawned>>
    /\ \E rc \in ReturnCodes, err \in Stderrs, fs \in FsOutcomes :
            Deliver(Completed(rc, proc.out, err), fs, printed)

\* the scan is still running when its timeout elapses: it is killed
ScanTimedOut ==
    /\ runPc = "wait" /\ proc.state = "running" /\ proc.elapsed = proc.timeout
    /\ proc' = NoProc
    /\ UNCHANGED <<entry, argv, arg, checkResult, calls, spawned>>
    /\ \E fs \in FsOutcomes : Deliver(Raises("TimeoutExpired", proc.out), fs, printed)

Next ==
    \/ MainStart
    \/ SaveStart
    \/ RunStart
    \/ Tick
    \/ ChildWrite
    \/ CheckCompleted
    \/ CheckTimedOut
    \/ ScanCompleted
    \/ ScanTimedOut

Spec == Init /\ [][Next]_vars

\* time passes and subprocess.run returns: the scheduling of a blocking call
LiveSpec ==
    /\ Spec
    /\ WF_vars(Tick)
    /\ WF_vars(CheckCompleted) /\ WF_vars(CheckTimedOut)
    /\ WF_vars(ScanTimedOut)

----------------------------------------------------------------------------
(* What the properties below read off a state *)

Printed(m) == \E i \in 1..Len(printed) : printed[i].msg = m

PrintedWith(m, a) == \E i \in 1..Len(printed) : printed[i] = Line(m, a)

Called(fn) == \E i \in 1..Len(calls) : calls[i].fn = fn

\* the classification of a run of run_naabu is the diagnostic it printed
Classification ==
    IF Printed("[!] Warning: naabu process was killed by SIGKILL") THEN "KilledBySignal"
    ELSE IF Printed("[!] naabu exited with code") THEN "NonZeroExit"
    ELSE IF Printed("[!] naabu wordlist generation timed out") THEN "TimedOut"
    ELSE IF Printed("[!] Error: naabu command not found") THEN "NotFound"
    ELSE IF Printed("[!] Unexpected error running naabu:") THEN "OtherError"
    ELSE "Success"

\* the scan's child process ended and run_naabu returned
ScanEnded == runPc = "returned" /\ result.kind = "completed"

\* the version query failed in one of the three ways the check handles
DepCheckFailed ==
    \/ checkResult.kind = "completed" /\ checkResult.returncode # 0
    \/ checkResult.kind \in {"TimeoutExpired", "FileNotFoundError"}

DepCheckPassed == checkResult.kind = "completed" /\ checkResult.returncode = 0

ScanSpawned == \E i \in 1..Len(spawned) : spawned[i] # version_command

----------------------------------------------------------------------------
(* C1 *)

\* C1: a run of main with one target argument whose dependency check passes,
\* and in which no scan fails and saving does not fail, invokes the runner and
\* ends with exit code 0.
C1_CleanRunExitsZero ==
    (/\ entry = "main" /\ Len(argv) = 2 /\ mainPc = "exited"
     /\ DepCheckPassed
     /\ (result.kind # "none" => result.kind = "completed" /\ result.returncode = 0)
     /\ ~Printed("[!] Error running naabu:"))
    => exitStatus = {0} /\ Called("run_naabu")

----------------------------------------------------------------------------
(* C2 *)

\* C2 (as claimed): run_naabu_and_save returns 0 only when the classification
\* is Success, and 1 for every other classification.
C2_ZeroOnlyOnSuccess ==
    savePc = "returned" =>
        /\ (saveRet = {0} => Classification = "Success")
        /\ (Classification # "Success" => saveRet = {1})

\* C2 (amended): run_naabu_and_save returns 0 exactly when run_naabu returned
\* usable data and the file was saved, whatever the classification; it returns
\* 1 for TimedOut, NotFound and OtherError, and for a killed or failing
\* process whose standard output is blank.
C2_ZeroIffOutputSaved ==
    savePc = "returned" =>
        /\ saveRet \in {{0}, {1}}
        /\ (saveRet = {0}) <=>
              (runRet.present /\ ~Printed("[!] Error running naabu:"))
        /\ (saveRet = {0} => ResultFile(runRet.text) \in files)
        /\ (Classification \in {"TimedOut", "NotFound", "OtherError"} => saveRet = {1})
        /\ (Classification \in {"KilledBySignal", "NonZeroExit"}
              /\ strip(result.stdout) = <<>> => saveRet = {1})

C2_DegradedResultExitsZero ==
    /\ savePc = "returned" /\ saveRet = {0}
    /\ Classification = "NonZeroExit"

----------------------------------------------------------------------------
(* C3 *)

\* C3: when the version query exits non-zero, times out or finds no binary,
\* main exits with code 1 after the missing-dependency diagnostic, run_naabu
\* is never called, no scan is started and no file is written; and under main
\* run_naabu is only called after a version query that exited with status 0.
C3_FailedCheckGatesRunner ==
    /\ (entry = "main" /\ DepCheckFailed) =>
          /\ mainPc = "exited" /\ exitStatus = {1} /\ raised = "none"
          /\ Printed("[!] Error: naabu is not installed or not in PATH")
          /\ ~Called("run_naabu") /\ ~Called("activate_venv")
          /\ runPc = "idle" /\ ~ScanSpawned
          /\ files = {}
    /\ (entry = "main" /\ Called("run_naabu")) => DepCheckPassed

C3_CheckTimedOut ==
    /\ entry = "main" /\ mainPc = "exited"
    /\ checkResult.kind = "TimeoutExpired"
    /\ exitStatus = {1}

----------------------------------------------------------------------------
(* C4 *)

\* C4 (as claimed): run_naabu returns a text only if the child wrote a
\* non-empty standard output, and no file is written for a process that
\* printed nothing.
C4_OutputOnlyIfNonEmpty ==
    runPc = "returned" =>
        /\ (runRet.present => result.stdout # <<>>)
        /\ (files # {} => result.stdout # <<>>)

\* C4 (amended): run_naabu returns a text only if the child exited with status
\* 0 (whatever it wrote, even nothing) or wrote a standard output with a
\* non-whitespace character; the text is that standard output; a file is
\* written only for such a text.
C4_OutputOnlyIfCleanOrNonBlank ==
    runPc = "returned" =>
        /\ (runRet.present =>
              /\ result.kind = "completed"
              /\ (result.returncode = 0 \/ strip(result.stdout) # <<>>)
              /\ runRet.text = result.stdout)
        /\ (files # {} => runRet.present)

C4_EmptyFileWritten ==
    /\ savePc = "returned" /\ runRet.present
    /\ result.stdout = <<>>
    /\ files = {ResultFile(<<>>)} /\ saveRet = {0}

----------------------------------------------------------------------------
(* C5 *)

\* C5: when the child exits with status 0, run_naabu prints no diagnostic
\* (Success) and returns exactly the standard output the child wrote, for
\* every target and every text, the empty text included.
C5_CleanExitReturnsStdout ==
    (ScanEnded /\ result.returncode = 0) =>
        /\ runRet = Str(result.stdout)
        /\ Classification = "Success"

C5_EmptyStdoutReturned ==
    /\ ScanEnded /\ result.returncode = 0
    /\ result.stdout = <<>> /\ runRet.present

----------------------------------------------------------------------------
(* C6 *)

\* C6: no exception escapes run_naabu: after a timeout, a missing executable,
\* a non-zero exit or any other launch error it has returned; a missing
\* executable gives NotFound and None; another launch error gives None and a
\* printed line that carries the error.
C6_NoExceptionEscapes ==
    /\ runPc # "raised"
    /\ (entry = "run_naabu" => raised = "none")
    /\ (result.kind # "none" => runPc = "returned")
    /\ (result.kind = "FileNotFoundError" =>
          ~runRet.present /\ Classification = "NotFound")
    /\ (result.kind \notin {"none", "completed", "TimeoutExpired", "FileNotFoundError"} =>
          /\ ~runRet.present /\ Classification = "OtherError"
          /\ PrintedWith("[!] Unexpected error running naabu:", <<result.kind>>))

C6_OtherLaunchErrorReturned ==
    /\ entry = "run_naabu" /\ runPc = "returned"
    /\ result.kind = "PermissionError"

----------------------------------------------------------------------------
(* C7 *)

\* C7: when the scan is still running as its 300-unit timeout elapses,
\* run_naabu eventually returns, with the TimedOut diagnostic and None,
\* whatever the child had written by then.
C7_TimeoutReturns ==
    []((runPc = "wait" /\ proc.elapsed = ScanTimeout) =>
         <>(/\ runPc = "returned"
            /\ result.kind = "TimeoutExpired"
            /\ Classification = "TimedOut"
            /\ ~runRet.present))

C7_TimedOutWithPartialOutput ==
    /\ runPc = "returned" /\ result.kind = "TimeoutExpired"
    /\ result.stdout # <<>> /\ ~runRet.present

----------------------------------------------------------------------------
(* C8 *)

\* C8 (as claimed): whenever the child is ended by a signal (a negative
\* returncode), run_naabu classifies the run KilledBySignal and returns the
\* standard output when any was captured, None when none was.
C8_AnySignalIsKilledBySignal ==
    (ScanEnded /\ result.returncode < 0) =>
        /\ Classification = "KilledBySignal"
        /\ runRet = IF result.stdout # <<>> THEN Str(result.stdout) ELSE None

\* C8 (amended): when the child is ended by SIGKILL (returncode -9), run_naabu
\* classifies the run KilledBySignal and returns the standard output when it
\* has a non-whitespace character, None otherwise; a child ended by another
\* signal is classified NonZeroExit, with the same rule for the output.
C8_SigkillKeepsNonBlankOutput ==
    (ScanEnded /\ result.returncode < 0) =>
        /\ Classification =
              IF result.returncode = SIGKILL THEN "KilledBySignal" ELSE "NonZeroExit"
        /\ runRet = IF strip(result.stdout) # <<>> THEN Str(result.stdout) ELSE None

C8_PartialOutputKept ==
    /\ ScanEnded /\ result.returncode = SIGKILL
    /\ Classification = "KilledBySignal"
    /\ result.stdout # <<>> /\ runRet = Str(result.stdout)

----------------------------------------------------------------------------
(* C9 *)

\* C9 (as claimed): when the child exits with a positive status, run_naabu
\* reports the failure, returns the standard output whenever it is non-empty
\* (whitespace-only included), and returns None exactly when it is empty.
C9_NonEmptyOutputSurfaced ==
    (ScanEnded /\ result.returncode > 0) =>
        /\ Classification = "NonZeroExit"
        /\ (result.stdout # <<>> => runRet = Str(result.stdout))
        /\ (~runRet.present <=> result.stdout = <<>>)

\* C9 (amended): when the child exits with a positive status, run_naabu
\* reports the failure with the status, returns the standard output whenever
\* it has a non-whitespace character, and returns None exactly when it is
\* empty or whitespace-only.
C9_NonBlankOutputSurfaced ==
    (ScanEnded /\ result.returncode > 0) =>
        /\ Classification = "NonZeroExit"
        /\ PrintedWith("[!] naabu exited with code", <<ToString(result.returncode)>>)
        /\ (strip(result.stdout) # <<>> => runRet = Str(result.stdout))
        /\ (~runRet.present <=> strip(result.stdout) = <<>>)

C9_WhitespaceOutputDropped ==
    /\ ScanEnded /\ result.returncode > 0
    /\ result.stdout # <<>> /\ strip(result.stdout) = <<>>
    /\ ~runRet.present

----------------------------------------------------------------------------
(* C10 *)

====
